---------------------------- MODULE Spec2Model ----------------------------
(***************************************************************************)
(* Model of github.com/anaminus/drill:                                     *)
(*   - package drill: Index, Query, Descendants (generic traversal)        *)
(*   - package markdown: compileSection (section segmentation), the Node   *)
(*     adapter over the section tree, and the streaming FragmentReader.    *)
(* Specifications: Spec (package drill), SpecMarkdown (the section         *)
(* transformer), SpecNode (the Node adapter over a segmented document),    *)
(* SpecStream and FairSpecStream (the render goroutine and its pipe; the   *)
(* fair one adds weak fairness of the goroutine's own steps).              *)
(***************************************************************************)
EXTENDS Integers, Sequences, FiniteSets, TLC

VARIABLES
    caps,       \* drill: capability set of every node of the test tree
    ret,        \* drill: record of the last completed Index / Query call
    dArg,       \* drill: argument n of the running Descendants call
    dOut,       \* drill: the slice *d that descendants appends to
    dStack,     \* drill: call stack of descendants (frames [n, idx])
    dState,     \* drill: "idle", "running", "returned" or "overflow"
    tree,       \* markdown: the goldmark AST (child lists and node fields)
    phase,      \* markdown: "source", "parsed" or "transformed"
    mret,       \* markdown: record of the last completed Node method call
    prod,       \* stream: position of the goroutine running render
    todo,       \* stream: writes the renderer still has to make on the pipe
    pending,    \* stream: bytes of the blocked pipe write not yet read
    bufErr,     \* stream: sticky write error of the renderer's buffered writer
    renderErr,  \* stream: error returned by renderer.Render ("nil": none)
    pipe,       \* stream: the io.Pipe (werr, rerr, done)
    cons,       \* stream: the caller's read end: "none", "open", "closed"
    lastRead    \* stream: outcome of the caller's last Read

drillVars == <<caps, ret, dArg, dOut, dStack, dState>>

mdVars == <<tree, phase, mret>>

streamVars == <<prod, todo, pending, bufErr, renderErr, pipe, cons, lastRead>>

vars == <<drillVars, mdVars, streamVars>>

-----------------------------------------------------------------------------
(* Bounds                                                                  *)

\* Longest query token list handed to the generic Query.
MaxTokens == 2
\* Largest magnitude of an index argument / length handed to Index.
MaxIndex == 5
\* Depth at which the model stops following the recursion of descendants
\* (the Go runtime aborts the program when the goroutine stack is exhausted).
MaxDepth == 6

\* Longest run of free blocks after the opening chain of nested headings
\* in the documents handed to the section transformer.
MaxTail == 2
\* Longest block sequence of the documents the Node adapter is queried on.
MaxBlocks == 3
\* Most writes one Render makes on the pipe, and most bytes in one write.
MaxWrites == 3
MaxBytes == 2

-----------------------------------------------------------------------------
(* package drill: nodes and capabilities                                   *)

\* The nil Node.
Nil == 0

\* A small tree of nodes: 1 -> (nil, 2), 2 -> (3), 3 -> ().
GNodes == {1, 2, 3}

\* Capabilities a node may implement (type switches / assertions in drill).
CapSets ==
    { {}, {"UnorderedBranch"}, {"OrderedBranch"},
      {"OrderedBranch", "UnorderedBranch"},
      {"Queryer", "OrderedBranch", "UnorderedBranch"} }

\* OrderedBranch.OrderedChildren of the test tree (may hold nil entries).
OrderedChildren(n) ==
    CASE n = 1 -> <<Nil, 2>>
      [] n = 2 -> <<3>>
      [] OTHER -> <<>>

\* Index with the upper bound test off by one (i > len instead of i >= len).
IndexOffByOne(i, len) ==
    IF len <= 0 THEN -1
    ELSE LET j == IF i < 0 THEN i + len ELSE i
         IN  IF j < 0 \/ j > len THEN -1 ELSE j

\* Index returns i wrapped around len, or -1 when out of bounds / len <= 0.
Index(i, len) ==
    IF len <= 0 THEN -1
    ELSE LET j == IF i < 0 THEN i + len ELSE i
         IN  IF j < 0 \/ j >= len THEN -1 ELSE j

\* OrderedBranch.OrderedChild: same boundary rules as Index, nil if absent.
OrderedChild(n, i) ==
    LET kids == OrderedChildren(n)
        k == Index(i, Len(kids))
    IN  IF k < 0 THEN Nil ELSE kids[k + 1]

\* UnorderedBranch.UnorderedChild of the test tree: nil if no match.
UnorderedChild(n, name) ==
    CASE n = 1 /\ name = "a" -> 2
      [] n = 2 /\ name = "b" -> 3
      [] OTHER -> Nil

\* Query tokens: interface{} values holding a string, an int or anything else.
StrTok(s) == [kind |-> "string", s |-> s, i |-> 0]
IntTok(i) == [kind |-> "int", s |-> "", i |-> i]
OtherTok == [kind |-> "other", s |-> "", i |-> 0]

Tokens == {StrTok("a"), StrTok("b"), IntTok(0), IntTok(1), IntTok(-1), OtherTok}

TokenSeqs == UNION {[1..k -> Tokens] : k \in 0..MaxTokens}

\* Results of Query: a node (possibly nil), or whatever the Queryer override
\* of node n returns for the remaining queries.
NodeResult(n) == [kind |-> "node", node |-> n, rest |-> <<>>]
OverrideResult(n, rest) == [kind |-> "override", node |-> n, rest |-> rest]

RECURSIVE QueryLoopSkipsToken(_, _, _, _)
\* The loop of Query handing a Queryer queries[i+1:] instead of queries[i:].
QueryLoopSkipsToken(c, n, queries, i) ==
    IF i > Len(queries) THEN NodeResult(n)
    ELSE IF n # Nil /\ "Queryer" \in c[n]
         THEN OverrideResult(n, SubSeq(queries, i + 1, Len(queries)))
    ELSE IF n = Nil THEN NodeResult(Nil)
    ELSE LET query == queries[i] IN
         CASE query.kind = "string" ->
                IF "UnorderedBranch" \notin c[n] THEN NodeResult(Nil)
                ELSE QueryLoopSkipsToken(c, UnorderedChild(n, query.s), queries, i + 1)
           [] query.kind = "int" ->
                IF "OrderedBranch" \notin c[n] THEN NodeResult(Nil)
                ELSE QueryLoopSkipsToken(c, OrderedChild(n, query.i), queries, i + 1)
           [] OTHER -> NodeResult(Nil)

RECURSIVE QueryLoop(_, _, _, _)
\* The for loop of Query at iteration i (1-based) with current node n.
QueryLoop(c, n, queries, i) ==
    IF i > Len(queries) THEN NodeResult(n)
    ELSE IF n # Nil /\ "Queryer" \in c[n]
         THEN OverrideResult(n, SubSeq(queries, i, Len(queries)))
    ELSE IF n = Nil THEN NodeResult(Nil)
    ELSE LET query == queries[i] IN
         CASE query.kind = "string" ->
                IF "UnorderedBranch" \notin c[n] THEN NodeResult(Nil)
                ELSE QueryLoop(c, UnorderedChild(n, query.s), queries, i + 1)
           [] query.kind = "int" ->
                IF "OrderedBranch" \notin c[n] THEN NodeResult(Nil)
                ELSE QueryLoop(c, OrderedChild(n, query.i), queries, i + 1)
           [] OTHER -> NodeResult(Nil)

\* drill.Query(n, queries...)
Query(c, n, queries) == QueryLoop(c, n, queries, 1)

-----------------------------------------------------------------------------
(* package drill: actions                                                  *)

NoCall == [op |-> "none"]

\* The pipe as io.Pipe() returns it.
NewPipe == [werr |-> "none", rerr |-> "none", done |-> FALSE]

\* No fragment is being streamed.
StreamIdle ==
    /\ prod = "none"
    /\ todo = 0
    /\ pending = 0
    /\ bufErr = "none"
    /\ renderErr = "nil"
    /\ pipe = NewPipe
    /\ cons = "none"
    /\ lastRead = "none"

\* No document is loaded while package drill is exercised on its own.
MdIdle ==
    /\ tree = [kids |-> <<>>, node |-> <<>>]
    /\ phase = "source"
    /\ mret = NoCall

Init ==
    /\ caps \in [GNodes -> CapSets]
    /\ ret = NoCall
    /\ dArg = Nil
    /\ dOut = <<>>
    /\ dStack = <<>>
    /\ dState = "idle"
    /\ MdIdle
    /\ StreamIdle

Fresh == ret = NoCall /\ dState = "idle"

\* One call of Index(i, len).
CallIndex ==
    /\ Fresh
    /\ \E i \in -(MaxIndex + 1)..(MaxIndex + 1), len \in -1..MaxIndex :
          ret' = [op |-> "Index", i |-> i, len |-> len, out |-> Index(i, len)]
    /\ UNCHANGED <<caps, dArg, dOut, dStack, dState, mdVars, streamVars>>

\* One call of Query(n, queries...).
CallQuery ==
    /\ Fresh
    /\ \E n \in GNodes \cup {Nil}, queries \in TokenSeqs :
          ret' = [op |-> "Query", n |-> n, queries |-> queries,
                  out |-> Query(caps, n, queries)]
    /\ UNCHANGED <<caps, dArg, dOut, dStack, dState, mdVars, streamVars>>

\* Descendants(n): d := []Node{}; nil or non-branch nodes return at once,
\* an OrderedBranch enters descendants(&d, o).
CallDescendants ==
    /\ Fresh
    /\ \E n \in GNodes \cup {Nil} :
          /\ dArg' = n
          /\ dOut' = <<>>
          /\ IF n # Nil /\ "OrderedBranch" \in caps[n]
             THEN dStack' = <<[n |-> n, idx |-> 1]>> /\ dState' = "running"
             ELSE dStack' = <<>> /\ dState' = "returned"
    /\ UNCHANGED <<caps, ret, mdVars, streamVars>>

\* The node descendants recurses into after appending child: the code
\* asserts n.(OrderedBranch) on the receiver n, which always succeeds, and
\* calls descendants(d, o) with o = n.
RecurseInto(n, child) == n

\* One iteration of the range loop of the innermost descendants frame, or
\* its return when the loop is over.
StepDescendants ==
    /\ dState = "running"
    /\ LET top == dStack[Len(dStack)]
           kids == OrderedChildren(top.n)
           rest == SubSeq(dStack, 1, Len(dStack) - 1)
       IN  IF top.idx > Len(kids)
           THEN /\ dStack' = rest
                /\ dOut' = dOut
                /\ dState' = IF rest = <<>> THEN "returned" ELSE "running"
           ELSE LET child == kids[top.idx]
                    adv == Append(rest, [top EXCEPT !.idx = top.idx + 1])
                IN  IF child = Nil
                    THEN /\ dStack' = adv
                         /\ dOut' = dOut
                         /\ dState' = "running"
                    ELSE /\ dOut' = Append(dOut, child)
                         /\ IF Len(dStack) >= MaxDepth
                            THEN dStack' = adv /\ dState' = "overflow"
                            ELSE /\ dStack' = Append(adv,
                                        [n |-> RecurseInto(top.n, child), idx |-> 1])
                                 /\ dState' = "running"
    /\ UNCHANGED <<caps, ret, dArg, mdVars, streamVars>>

Next == CallIndex \/ CallQuery \/ CallDescendants \/ StepDescendants

Spec == Init /\ [][Next]_vars

-----------------------------------------------------------------------------
(* package markdown: the AST and the section transformer                   *)

\* Deepest heading level at which compileSection recurses no further.
MaxLevel == 6

\* The nil ast.Node. Nodes are numbered from 1 in order of creation; node 1
\* is the ast.Document.
NoNode == 0
DocId == 1

\* An attribute is absent (<<>>) or holds one value (<<v>>).
NoAttr == <<>>

\* Node values: kind, the fields of ast.Heading (Level, text, the "section"
\* and "id" attributes) and the fields of Section (Heading, Name).
Document ==
    [kind |-> "Document", level |-> 0, text |-> "", secAttr |-> NoAttr,
     idAttr |-> NoAttr, heading |-> NoNode, name |-> ""]
Paragraph ==
    [kind |-> "Paragraph", level |-> 0, text |-> "", secAttr |-> NoAttr,
     idAttr |-> NoAttr, heading |-> NoNode, name |-> ""]
Heading(level, text, secAttr, idAttr) ==
    [kind |-> "Heading", level |-> level, text |-> text, secAttr |-> secAttr,
     idAttr |-> idAttr, heading |-> NoNode, name |-> ""]

\* NewSection: a Section with no Heading, an empty Name and no children.
EmptySection ==
    [kind |-> "Section", level |-> 0, text |-> "", secAttr |-> NoAttr,
     idAttr |-> NoAttr, heading |-> NoNode, name |-> ""]

\* The tree after NewSection() allocated node Len(t.node) + 1.
NewSection(t) ==
    [kids |-> Append(t.kids, <<>>), node |-> Append(t.node, EmptySection)]

\* ast.Node navigation over the child lists.
ChildCount(t, p) == Len(t.kids[p])
FirstChild(t, p) == IF t.kids[p] = <<>> THEN NoNode ELSE t.kids[p][1]
Parent(t, v) ==
    IF \E p \in 1..Len(t.kids) : \E k \in 1..Len(t.kids[p]) : t.kids[p][k] = v
    THEN CHOOSE p \in 1..Len(t.kids) : \E k \in 1..Len(t.kids[p]) : t.kids[p][k] = v
    ELSE NoNode
Position(t, p, v) == CHOOSE k \in 1..Len(t.kids[p]) : t.kids[p][k] = v
NextSibling(t, v) ==
    LET p == Parent(t, v) IN
    IF p = NoNode THEN NoNode
    ELSE LET k == Position(t, p, v)
         IN  IF k = Len(t.kids[p]) THEN NoNode ELSE t.kids[p][k + 1]

\* RemoveChild(self, v): unlink v from the children of self.
RemoveChild(t, self, v) ==
    IF Parent(t, v) # self THEN t
    ELSE LET k == Position(t, self, v)
             l == t.kids[self]
         IN  [t EXCEPT !.kids[self] = SubSeq(l, 1, k - 1) \o SubSeq(l, k + 1, Len(l))]

\* ensureIsolated(v): unlink v from its current parent, if any.
EnsureIsolated(t, v) ==
    IF Parent(t, v) = NoNode THEN t ELSE RemoveChild(t, Parent(t, v), v)

\* AppendChild that links v under self without unlinking it from its parent.
AppendChildNoUnlink(t, self, v) ==
    [t EXCEPT !.kids[self] = Append(@, v)]

\* AppendChild(self, v): move v to the end of the children of self.
AppendChild(t, self, v) ==
    LET u == EnsureIsolated(t, v)
    IN  [u EXCEPT !.kids[self] = Append(@, v)]

\* The finished section appended to self instead of inserted before v1.
InsertAtEnd(t, self, v1, insertee) ==
    LET u == EnsureIsolated(t, insertee)
    IN  [u EXCEPT !.kids[self] = Append(@, insertee)]

\* InsertBefore(self, v1, insertee): move insertee right before child v1.
InsertBefore(t, self, v1, insertee) ==
    LET u == EnsureIsolated(t, insertee) IN
    IF Parent(u, v1) # self THEN u
    ELSE LET k == Position(u, self, v1)
             l == u.kids[self]
         IN  [u EXCEPT !.kids[self] =
                 SubSeq(l, 1, k - 1) \o <<insertee>> \o SubSeq(l, k, Len(l))]

\* The Name of the section begun by heading h: its "section" attribute,
\* else its "id" attribute, else its text.
SectionName(h) ==
    IF h.secAttr # NoAttr THEN h.secAttr[1]
    ELSE IF h.idAttr # NoAttr THEN h.idAttr[1]
    ELSE h.text

\* The emission test with && in place of ||.
EmitsOnlyHeadedContent(t, section) ==
    t.node[section].heading # NoNode /\ ChildCount(t, section) > 0

\* Whether the finished section is emitted into the parent.
Emits(t, section) ==
    t.node[section].heading # NoNode \/ ChildCount(t, section) > 0

\* The recursion bound off by one (return on level > 6).
RecursesOnceMore(level) == level <= MaxLevel

\* Whether compileSection(_, _, level) recurses into its sections.
Recurses(level) == level < MaxLevel

RECURSIVE SectionLoopHeadingInside(_, _, _, _, _, _)
\* The scan of compileSection moving each heading into the section it begins.
SectionLoopHeadingInside(t, parent, level, section, current, subs) ==
    IF current = NoNode
    THEN IF Emits(t, section)
         THEN [tree |-> AppendChild(t, parent, section), subs |-> Append(subs, section)]
         ELSE [tree |-> t, subs |-> subs]
    ELSE LET next == NextSibling(t, current) IN
         IF t.node[current].kind = "Heading" /\ t.node[current].level = level
         THEN LET emit == Emits(t, section)
                  t1 == IF emit THEN InsertBefore(t, parent, current, section) ELSE t
                  subs1 == IF emit THEN Append(subs, section) ELSE subs
                  t2 == NewSection(t1)
                  fresh == Len(t2.node)
                  t3 == [t2 EXCEPT !.node[fresh].heading = current,
                                   !.node[fresh].name = SectionName(t.node[current])]
              IN  SectionLoopHeadingInside(AppendChild(t3, fresh, current), parent,
                                           level, fresh, next, subs1)
         ELSE SectionLoopHeadingInside(AppendChild(t, section, current), parent,
                                       level, section, next, subs)

RECURSIVE SectionLoopNextAfterMove(_, _, _, _, _, _)
\* The scan of compileSection reading current.NextSibling() only after
\* current has been moved into the section.
SectionLoopNextAfterMove(t, parent, level, section, current, subs) ==
    IF current = NoNode
    THEN IF Emits(t, section)
         THEN [tree |-> AppendChild(t, parent, section), subs |-> Append(subs, section)]
         ELSE [tree |-> t, subs |-> subs]
    ELSE IF t.node[current].kind = "Heading" /\ t.node[current].level = level
         THEN LET emit == Emits(t, section)
                  t1 == IF emit THEN InsertBefore(t, parent, current, section) ELSE t
                  subs1 == IF emit THEN Append(subs, section) ELSE subs
                  t2 == NewSection(t1)
                  fresh == Len(t2.node)
                  t3 == [t2 EXCEPT !.node[fresh].heading = current,
                                   !.node[fresh].name = SectionName(t.node[current])]
              IN  SectionLoopNextAfterMove(t3, parent, level, fresh,
                                           NextSibling(t3, current), subs1)
         ELSE LET moved == AppendChild(t, section, current)
              IN  SectionLoopNextAfterMove(moved, parent, level, section,
                                           NextSibling(moved, current), subs)

RECURSIVE SectionLoop(_, _, _, _, _, _)
\* The scan of compileSection from child current on, with the section being
\* filled and the sections emitted so far; yields the tree and subs.
SectionLoop(t, parent, level, section, current, subs) ==
    IF current = NoNode
    THEN IF Emits(t, section)
         THEN [tree |-> AppendChild(t, parent, section), subs |-> Append(subs, section)]
         ELSE [tree |-> t, subs |-> subs]
    ELSE LET next == NextSibling(t, current) IN
         IF t.node[current].kind = "Heading" /\ t.node[current].level = level
         THEN LET emit == Emits(t, section)
                  t1 == IF emit THEN InsertBefore(t, parent, current, section) ELSE t
                  subs1 == IF emit THEN Append(subs, section) ELSE subs
                  t2 == NewSection(t1)
                  fresh == Len(t2.node)
                  t3 == [t2 EXCEPT !.node[fresh].heading = current,
                                   !.node[fresh].name = SectionName(t.node[current])]
              IN  SectionLoop(t3, parent, level, fresh, next, subs1)
         ELSE SectionLoop(AppendChild(t, section, current), parent, level,
                          section, next, subs)

RECURSIVE CompileSubs(_, _, _, _)
RECURSIVE compileSection(_, _, _)
\* The closing loop of compileSection over subs[k..]: sections with a
\* Heading are segmented one level deeper.
CompileSubs(t, subs, k, level) ==
    IF k > Len(subs) THEN t
    ELSE IF t.node[subs[k]].heading # NoNode
         THEN CompileSubs(compileSection(t, subs[k], level + 1), subs, k + 1, level)
         ELSE CompileSubs(t, subs, k + 1, level)

\* compileSection(parent, source, level)
compileSection(t, parent, level) ==
    LET t0 == NewSection(t)
        r == SectionLoop(t0, parent, level, Len(t0.node), FirstChild(t0, parent), <<>>)
    IN  IF Recurses(level) THEN CompileSubs(r.tree, r.subs, 1, level) ELSE r.tree

\* The flat tree the block parser builds: a Document over the blocks.
FlatDocument(blocks) ==
    [kids |-> <<[k \in 1..Len(blocks) |-> k + 1]>> \o [k \in 1..Len(blocks) |-> <<>>],
     node |-> <<Document>> \o blocks]

\* Heading levels and the blocks documents are made of.
Levels == 1..MaxLevel
Blocks ==
    {Paragraph}
    \cup {Heading(l, "A", NoAttr, NoAttr) : l \in Levels}
    \cup {Heading(2, "B", NoAttr, NoAttr),
          Heading(1, "A", <<"S">>, <<"I">>),
          Heading(1, "A", NoAttr, <<"I">>)}

\* A chain of k nested headings: levels 1, 2, .. k.
Spine(k) == [l \in 1..k |-> Heading(l, "A", NoAttr, NoAttr)]

\* Documents: a chain of nested headings followed by up to MaxTail blocks.
Documents ==
    {Spine(k) \o tail : k \in 0..MaxLevel,
                        tail \in UNION {[1..m -> Blocks] : m \in 0..MaxTail}}

-----------------------------------------------------------------------------
(* package markdown: actions of the parser                                 *)

DrillIdle ==
    /\ caps = [n \in GNodes |-> {}]
    /\ ret = NoCall
    /\ dArg = Nil
    /\ dOut = <<>>
    /\ dStack = <<>>
    /\ dState = "idle"

InitMarkdown == DrillIdle /\ MdIdle /\ StreamIdle

\* parser.Parse, block phase: the document is a flat list of blocks.
ParseBlocks ==
    /\ phase = "source"
    /\ \E blocks \in Documents : tree' = FlatDocument(blocks)
    /\ phase' = "parsed"
    /\ UNCHANGED <<drillVars, mret, streamVars>>

\* sectionTransformer.Transform: compileSection(doc, source, 1).
Transform ==
    /\ phase = "parsed"
    /\ tree' = compileSection(tree, DocId, 1)
    /\ phase' = "transformed"
    /\ UNCHANGED <<drillVars, mret, streamVars>>

RECURSIVE RenderWalk(_, _)
RECURSIVE RenderChildren(_, _, _)
\* ast.Walk of the renderer over node n: a block renders itself, while the
\* Document and a Section (renderSection returns WalkContinue) render
\* nothing of their own and fall through to their children, in order.
RenderWalk(t, n) ==
    (IF t.node[n].kind \in {"Document", "Section"} THEN <<>> ELSE <<n>>)
    \o RenderChildren(t, n, 1)

\* The walk over the children of n from the k-th on.
RenderChildren(t, n, k) ==
    IF k > Len(t.kids[n]) THEN <<>>
    ELSE RenderWalk(t, t.kids[n][k]) \o RenderChildren(t, n, k + 1)

\* Node.Fragment on the root Node: the blocks the renderer emits, in order.
Fragment ==
    /\ phase = "transformed"
    /\ mret = NoCall
    /\ mret' = [op |-> "Fragment", n |-> DocId, out |-> RenderWalk(tree, DocId)]
    /\ UNCHANGED <<drillVars, tree, phase, streamVars>>

NextMarkdown == ParseBlocks \/ Transform \/ Fragment

SpecMarkdown == InitMarkdown /\ [][NextMarkdown]_vars

-----------------------------------------------------------------------------
(* package markdown: properties of the section transformer                 *)

IsSection(t, v) == t.node[v].kind = "Section"
IsOrphan(t, v) == IsSection(t, v) /\ t.node[v].heading = NoNode
Children(t, p) == {t.kids[p][k] : k \in 1..Len(t.kids[p])}

\* Nodes linked into the document.
RECURSIVE Attached(_, _)
Attached(t, p) == {p} \cup UNION {Attached(t, c) : c \in Children(t, p)}

\* Number of Sections on the path from the document down to v (v included).
RECURSIVE SectionDepth(_, _)
SectionDepth(t, v) ==
    (IF IsSection(t, v) THEN 1 ELSE 0)
    + (IF Parent(t, v) = NoNode THEN 0 ELSE SectionDepth(t, Parent(t, v)))

\* The level of the pass that ran over parent p (0: no pass ran over p):
\* level 1 over the document, level L+1 over a headed Section emitted by
\* the pass at level L < 6.
PassLevel(t, p) ==
    IF p = DocId THEN 1
    ELSE IF IsSection(t, p) /\ ~IsOrphan(t, p) /\ SectionDepth(t, p) < MaxLevel
         THEN SectionDepth(t, p) + 1
         ELSE 0

SegmentedParents(t) == {p \in Attached(t, DocId) : PassLevel(t, p) > 0}

\* The blocks the parser produced, in source order.
SourceBlocks(t) ==
    SelectSeq(t.node, LAMBDA n : n.kind \notin {"Document", "Section"})

Transformed == phase = "transformed"

\* C4 (as stated): after the pass at level L over a parent, every direct
\* child of the parent is a Section and no level-L heading remains a direct
\* child next to the sections.
C4_OnlySectionsRemain ==
    Transformed =>
        \A p \in SegmentedParents(tree) :
            \A c \in Children(tree, p) : IsSection(tree, c)

\* C4 (amended): after the pass at level L over a parent, every direct child
\* of the parent is an emitted Section or a level-L heading; each level-L
\* heading stays a direct child and is immediately followed by the Section
\* that refers to it, every headed Section is immediately preceded by its
\* heading, and all other content has moved into the Sections.
C4_HeadingsStayBesideSections ==
    Transformed =>
        \A p \in SegmentedParents(tree) :
            LET l == tree.kids[p] IN
            \A k \in 1..Len(l) :
                \/ /\ IsOrphan(tree, l[k])
                \/ /\ IsSection(tree, l[k])
                   /\ k > 1
                   /\ l[k - 1] = tree.node[l[k]].heading
                \/ /\ tree.node[l[k]].kind = "Heading"
                   /\ tree.node[l[k]].level = PassLevel(tree, p)
                   /\ k < Len(l)
                   /\ IsSection(tree, l[k + 1])
                   /\ tree.node[l[k + 1]].heading = l[k]

\* C4 witness: a segmented document in which a heading that owns content
\* remains a direct child of the document, next to its Section.
C4_Witness ==
    /\ Transformed
    /\ \E k \in 1..Len(tree.kids[DocId]) :
          /\ tree.node[tree.kids[DocId][k]].kind = "Heading"
          /\ k < Len(tree.kids[DocId])
          /\ ChildCount(tree, tree.kids[DocId][k + 1]) > 0

\* C5: after segmentation every parent has at most one direct child Section
\* without a heading, and such an orphan is the parent's first child.
C5_OrphanFirst ==
    Transformed =>
        \A p \in 1..Len(tree.kids) :
            \A k \in 1..Len(tree.kids[p]) :
                IsOrphan(tree, tree.kids[p][k]) => k = 1

\* C5 witness: text before the first level-1 heading became an orphan that
\* is the first child of the document, followed by a headed section.
C5_Witness ==
    /\ Transformed
    /\ Len(tree.kids[DocId]) >= 3
    /\ IsOrphan(tree, tree.kids[DocId][1])
    /\ \E c \in Children(tree, DocId) : IsSection(tree, c) /\ ~IsOrphan(tree, c)

\* The document: heading "A" (level 1), heading "B" (level 2), text.
DocAB ==
    <<Heading(1, "A", NoAttr, NoAttr), Heading(2, "B", NoAttr, NoAttr), Paragraph>>

SectionsOf(t, p) == {c \in Children(t, p) : IsSection(t, c)}

\* C6 (as stated): segmenting [# A, ## B, text] yields one level-1 section
\* "A" containing one level-2 section "B"; the text block is a direct child
\* of "B"; neither section is an orphan.
C6_TextDirectlyInB ==
    Transformed /\ SourceBlocks(tree) = DocAB =>
        \E a, b \in 1..Len(tree.node) :
            /\ SectionsOf(tree, DocId) = {a}
            /\ tree.node[a].name = "A" /\ ~IsOrphan(tree, a)
            /\ SectionsOf(tree, a) = {b}
            /\ tree.node[b].name = "B" /\ ~IsOrphan(tree, b)
            /\ \E c \in Children(tree, b) : tree.node[c].kind = "Paragraph"

\* C6 (amended): segmenting [# A, ## B, text] yields one level-1 section
\* "A" containing one level-2 section "B", neither an orphan; the only child
\* of "B" is an orphan section (Name == "") whose only child is the text.
C6_TextInOrphanOfB ==
    Transformed /\ SourceBlocks(tree) = DocAB =>
        \E a, b, o \in 1..Len(tree.node) :
            /\ SectionsOf(tree, DocId) = {a}
            /\ tree.node[a].name = "A" /\ ~IsOrphan(tree, a)
            /\ SectionsOf(tree, a) = {b}
            /\ tree.node[b].name = "B" /\ ~IsOrphan(tree, b)
            /\ tree.kids[b] = <<o>>
            /\ IsOrphan(tree, o) /\ tree.node[o].name = ""
            /\ Len(tree.kids[o]) = 1
            /\ tree.node[tree.kids[o][1]].kind = "Paragraph"

\* C6 witness: the document [# A, ## B, text] has been segmented.
C6_Witness == Transformed /\ SourceBlocks(tree) = DocAB

\* C7: Sections nest at most 6 deep, and a Section emitted by the level-6
\* pass is never subdivided: none of its children is a Section.
C7_DepthBound ==
    Transformed =>
        \A v \in Attached(tree, DocId) :
            IsSection(tree, v) =>
                /\ SectionDepth(tree, v) <= MaxLevel
                /\ SectionDepth(tree, v) = MaxLevel => SectionsOf(tree, v) = {}

\* C7 witness: a Section emitted by the level-6 pass holds two blocks flat.
C7_Witness ==
    /\ Transformed
    /\ \E v \in Attached(tree, DocId) :
          /\ IsSection(tree, v)
          /\ SectionDepth(tree, v) = MaxLevel
          /\ ChildCount(tree, v) = 2

\* The blocks of the parsed document in source order: FlatDocument numbers
\* them 2, 3, .. right after the Document.
SourceOrder(t) ==
    [k \in 1..Len(SourceBlocks(t)) |-> k + 1]

\* C11: segmentation preserves content and order: the depth-first,
\* left-to-right flattening of the segmented tree with the Section wrappers
\* removed is the original block sequence, headings included; no block is
\* lost, duplicated or reordered.
C11_FlatteningIsSource ==
    mret.op = "Fragment" => mret.out = SourceOrder(tree)

\* C11 witness: a rendered document of at least three blocks in which a
\* heading was kept beside its Section and text was re-parented twice, into
\* an orphan two Sections deep.
C11_Witness ==
    /\ mret.op = "Fragment"
    /\ Len(mret.out) >= 3
    /\ \E c \in Children(tree, DocId) : tree.node[c].kind = "Heading"
    /\ \E v \in Attached(tree, DocId) :
          /\ tree.node[v].kind = "Paragraph"
          /\ SectionDepth(tree, v) >= 2
          /\ IsOrphan(tree, Parent(tree, v))

-----------------------------------------------------------------------------
(* package markdown: the Node adapter                                      *)

\* A Node is identified by the ast.Node it wraps (derive copies the rest);
\* NoNode stands for the nil drill.Node.

\* WalkChildSections: the direct children that are Sections, in order.
ChildSections(t, p) ==
    SelectSeq(t.kids[p], LAMBDA c : t.node[c].kind = "Section")

\* Node.Len
NodeLen(t, p) == Len(ChildSections(t, p))

\* Node.OrderedChild
NodeOrderedChild(t, p, i) ==
    LET k == Index(i, NodeLen(t, p))
    IN  IF k < 0 THEN NoNode ELSE ChildSections(t, p)[k + 1]

\* Node.UnorderedChild
NodeUnorderedChild(t, p, name) ==
    LET secs == ChildSections(t, p)
        hits == {k \in 1..Len(secs) : t.node[secs[k]].name = name}
    IN  IF hits = {} THEN NoNode
        ELSE secs[CHOOSE k \in hits : \A j \in hits : k <= j]

RECURSIVE NodeQueryRawIndex(_, _, _, _)
\* Node.Query using the int query as a position without drill.Index.
NodeQueryRawIndex(t, n, queries, i) ==
    IF i > Len(queries) THEN n
    ELSE LET q == queries[i]
             secs == ChildSections(t, n)
         IN  CASE q.kind = "string" ->
                    LET found == {k \in 1..Len(secs) : t.node[secs[k]].name = q.s
                                     /\ \A j \in 1..(k - 1) : t.node[secs[j]].name # q.s}
                    IN  IF found = {} THEN NoNode
                        ELSE NodeQueryRawIndex(t, secs[CHOOSE k \in found : TRUE],
                                               queries, i + 1)
               [] q.kind = "int" ->
                    IF q.i < 0 \/ q.i >= Len(secs) THEN NoNode
                    ELSE NodeQueryRawIndex(t, secs[q.i + 1], queries, i + 1)
               [] OTHER -> NoNode

RECURSIVE NodeQueryLoop(_, _, _, _)
\* The for loop of Node.Query at iteration i (1-based) with receiver n.
NodeQueryLoop(t, n, queries, i) ==
    IF i > Len(queries) THEN n
    ELSE LET q == queries[i]
             secs == ChildSections(t, n)
         IN  CASE q.kind = "string" ->
                    LET found == {k \in 1..Len(secs) : t.node[secs[k]].name = q.s
                                     /\ \A j \in 1..(k - 1) : t.node[secs[j]].name # q.s}
                    IN  IF found = {} THEN NoNode
                        ELSE NodeQueryLoop(t, secs[CHOOSE k \in found : TRUE],
                                           queries, i + 1)
               [] q.kind = "int" ->
                    LET qi == Index(q.i, Len(secs))
                    IN  IF qi < 0 THEN NoNode
                        ELSE NodeQueryLoop(t, secs[qi + 1], queries, i + 1)
               [] OTHER -> NoNode

\* Node.Query(queries...)
NodeQuery(t, n, queries) == NodeQueryLoop(t, n, queries, 1)

\* Blocks of the documents the adapter is queried on.
NodeBlocks ==
    {Paragraph} \cup {Heading(l, x, NoAttr, NoAttr) : l \in {1, 2}, x \in {"A", "B"}}

NodeDocuments == UNION {[1..m -> NodeBlocks] : m \in 0..MaxBlocks}

\* Query tokens used against the section tree.
NodeTokens ==
    {StrTok("A"), StrTok("B"), StrTok(""), IntTok(0), IntTok(-1), OtherTok}

NodeTokenSeqs == UNION {[1..k -> NodeTokens] : k \in 0..MaxTokens}

\* NewHandler: parse the file into blocks (the transformer runs next).
ParseFile ==
    /\ phase = "source"
    /\ \E blocks \in NodeDocuments : tree' = FlatDocument(blocks)
    /\ phase' = "parsed"
    /\ UNCHANGED <<drillVars, mret, streamVars>>

\* One call of n.Query(queries...) on the root Node of the document.
CallNodeQuery ==
    /\ phase = "transformed"
    /\ mret = NoCall
    /\ \E queries \in NodeTokenSeqs :
          mret' = [op |-> "Query", n |-> DocId, queries |-> queries,
                   out |-> NodeQuery(tree, DocId, queries)]
    /\ UNCHANGED <<drillVars, tree, phase, streamVars>>

NextNode == ParseFile \/ Transform \/ CallNodeQuery

SpecNode == InitMarkdown /\ [][NextNode]_vars

RECURSIVE NodeSteps(_, _, _)
\* One token at a time: UnorderedChild for a string, OrderedChild for an int.
NodeSteps(t, n, toks) ==
    IF toks = <<>> THEN n
    ELSE LET q == Head(toks)
             child == CASE q.kind = "string" -> NodeUnorderedChild(t, n, q.s)
                        [] q.kind = "int" -> NodeOrderedChild(t, n, q.i)
                        [] OTHER -> NoNode
         IN  IF child = NoNode THEN NoNode ELSE NodeSteps(t, child, Tail(toks))

\* C8: Node.Query wraps the same Section (or is nil) as stepping one token
\* at a time with UnorderedChild (string) and OrderedChild (int) over direct
\* child Sections, nil for any other token kind, n itself for no tokens.
C8_QueryIsStepwise ==
    mret.op = "Query" => mret.out = NodeSteps(tree, mret.n, mret.queries)

\* C8 witness: a two-token query, negative index then name, found a nested
\* Section two levels below the root.
C8_Witness ==
    /\ mret.op = "Query"
    /\ Len(mret.queries) = 2
    /\ mret.queries[1] = IntTok(-1)
    /\ mret.queries[2].kind = "string"
    /\ mret.out # NoNode
    /\ SectionDepth(tree, mret.out) = 2
    /\ NodeLen(tree, DocId) > 1

-----------------------------------------------------------------------------
(* package markdown: FragmentReader and the render goroutine               *)

\* closeWrite(err) of the pipe (PipeWriter.CloseWithError / Close): the
\* first error stored wins, a nil error is stored as EOF, done is closed.
PipeCloseWrite(p, err) ==
    [p EXCEPT !.werr = IF @ # "none" THEN @ ELSE IF err = "nil" THEN "EOF" ELSE err,
              !.done = TRUE]

\* closeRead(nil) of the pipe (PipeReader.Close): ErrClosedPipe is stored
\* unless an error is already there, done is closed.
PipeCloseRead(p) ==
    [p EXCEPT !.rerr = IF @ # "none" THEN @ ELSE "ErrClosedPipe", !.done = TRUE]

\* The error a Read returns once done is closed.
ReadCloseError(p) ==
    IF p.rerr = "none" /\ p.werr # "none" THEN p.werr ELSE "ErrClosedPipe"

\* The error a Write returns once done is closed.
WriteCloseError(p) ==
    IF p.werr = "none" /\ p.rerr # "none" THEN p.rerr ELSE "ErrClosedPipe"

\* render never reporting the error of Render (the if branch is skipped).
ReportsNoError(err) == FALSE

\* render calls w.CloseWithError(err) exactly when Render returned an error.
ReportsError(err) == err # "nil"

\* A ReadCloser whose Close leaves the pipe open.
ReaderCloseNop(p) == p

\* Close of the ReadCloser FragmentReader returns: the *io.PipeReader itself.
ReaderClose(p) == PipeCloseRead(p)

\* FragmentReader on a Node without renderer returns the "no renderer"
\* error and starts nothing; otherwise it creates the pipe and starts
\* go render(n, w). The rendering will make todo writes on the pipe.
FragmentReader ==
    /\ prod = "none" /\ cons = "none" /\ lastRead = "none"
    /\ \E renderer \in BOOLEAN, writes \in 0..MaxWrites :
          IF renderer
          THEN /\ prod' = "render"
               /\ todo' = writes
               /\ cons' = "open"
               /\ lastRead' = "none"
          ELSE /\ prod' = "none"
               /\ todo' = 0
               /\ cons' = "none"
               /\ lastRead' = "no renderer"
    /\ pipe' = NewPipe
    /\ UNCHANGED <<drillVars, mdVars, pending, bufErr, renderErr>>

\* Render flushes its buffer to the pipe: the write fails at once when done
\* is closed (the error sticks in the buffered writer), else it offers its
\* bytes and blocks.
RenderWrite ==
    /\ prod = "render" /\ todo > 0 /\ bufErr = "none"
    /\ IF pipe.done
       THEN /\ bufErr' = WriteCloseError(pipe)
            /\ UNCHANGED <<prod, todo, pending>>
       ELSE /\ \E n \in 1..MaxBytes : pending' = n
            /\ prod' = "writing"
            /\ UNCHANGED <<todo, bufErr>>
    /\ UNCHANGED <<drillVars, mdVars, renderErr, pipe, cons, lastRead>>

\* A blocked write is woken by done being closed and returns the error.
WriteFails ==
    /\ prod = "writing" /\ pipe.done
    /\ bufErr' = WriteCloseError(pipe)
    /\ prod' = "render"
    /\ pending' = 0
    /\ UNCHANGED <<drillVars, mdVars, todo, renderErr, pipe, cons, lastRead>>

\* A node renderer returns an error: Render returns it without flushing.
RenderFails ==
    /\ prod = "render" /\ (todo > 0 \/ bufErr # "none")
    /\ renderErr' = "RenderErr"
    /\ prod' = "returned"
    /\ UNCHANGED <<drillVars, mdVars, todo, pending, bufErr, pipe, cons, lastRead>>

\* The walk is over: Render returns what the final Flush returns, the
\* sticky write error if there is one.
RenderReturns ==
    /\ prod = "render" /\ (todo = 0 \/ bufErr # "none")
    /\ renderErr' = IF bufErr # "none" THEN bufErr ELSE "nil"
    /\ prod' = "returned"
    /\ UNCHANGED <<drillVars, mdVars, todo, pending, bufErr, pipe, cons, lastRead>>

\* render after Render returned: if err != nil { w.CloseWithError(err) }
CloseWithError ==
    /\ prod = "returned"
    /\ pipe' = IF ReportsError(renderErr) THEN PipeCloseWrite(pipe, renderErr) ELSE pipe
    /\ prod' = "closing"
    /\ UNCHANGED <<drillVars, mdVars, todo, pending, bufErr, renderErr, cons, lastRead>>

\* render: w.Close(), the last statement of the goroutine.
Close ==
    /\ prod = "closing"
    /\ pipe' = PipeCloseWrite(pipe, "nil")
    /\ prod' = "done"
    /\ UNCHANGED <<drillVars, mdVars, todo, pending, bufErr, renderErr, cons, lastRead>>

\* The caller's Read: the close error once done is closed, else up to
\* pending bytes of the blocked write (which returns when all are taken);
\* with neither, Read blocks.
Read ==
    /\ cons = "open"
    /\ IF pipe.done
       THEN /\ lastRead' = ReadCloseError(pipe)
            /\ UNCHANGED <<prod, todo, pending>>
       ELSE /\ prod = "writing"
            /\ \E n \in 1..pending :
                  /\ pending' = pending - n
                  /\ IF n = pending
                     THEN prod' = "render" /\ todo' = todo - 1
                     ELSE UNCHANGED <<prod, todo>>
            /\ lastRead' = "data"
    /\ UNCHANGED <<drillVars, mdVars, bufErr, renderErr, pipe, cons>>

\* The caller closes its read end.
ReaderCloses ==
    /\ cons = "open"
    /\ pipe' = ReaderClose(pipe)
    /\ cons' = "closed"
    /\ UNCHANGED <<drillVars, mdVars, prod, todo, pending, bufErr, renderErr, lastRead>>

\* Steps of the render goroutine that need no one else.
Producer == RenderWrite \/ WriteFails \/ RenderFails \/ RenderReturns \/ CloseWithError \/ Close

NextStream == FragmentReader \/ Producer \/ Read \/ ReaderCloses

SpecStream == InitMarkdown /\ [][NextStream]_vars

\* The scheduler keeps running the render goroutine while it can step.
FairSpecStream == SpecStream /\ WF_vars(Producer)

\* C9: when Render returns an error in the render goroutine, no Read of the
\* caller returns a clean end-of-stream, and a Read that ends the stream
\* returns that error, although Close follows CloseWithError.
C9_ErrorReachesReader ==
    /\ renderErr # "nil" => lastRead # "EOF"
    /\ renderErr # "nil" /\ lastRead \notin {"none", "data"} => lastRead = renderErr

\* C9 witness: the renderer failed, the goroutine ran to its end (Close
\* after CloseWithError) and the caller's Read returned the render error.
C9_Witness ==
    /\ prod = "done"
    /\ renderErr = "RenderErr"
    /\ lastRead = "RenderErr"

\* C10: once the caller has closed its read end, the producer's next write
\* fails instead of blocking, and the render goroutine terminates, having
\* closed the write end.
C10_CloseCancelsProducer ==
    /\ [][cons = "closed" /\ prod = "render" => prod' # "writing"]_vars
    /\ (cons = "closed") ~> (prod = "done" /\ pipe.werr # "none")

\* C10 witness: the caller closed while a write was blocked with unread
\* bytes; the write failed and the goroutine ended.
C10_Witness ==
    /\ cons = "closed"
    /\ bufErr = "ErrClosedPipe"
    /\ renderErr = "ErrClosedPipe"
    /\ todo > 0
    /\ prod = "done"

-----------------------------------------------------------------------------
(* package drill: properties                                               *)

RECURSIVE QueryFold(_, _, _)
\* The left-to-right fold of the tokens that C1 describes.
QueryFold(c, n, toks) ==
    IF toks = <<>> THEN NodeResult(n)
    ELSE IF n # Nil /\ "Queryer" \in c[n] THEN OverrideResult(n, toks)
    ELSE IF n = Nil THEN NodeResult(Nil)
    ELSE LET t == Head(toks) IN
         IF t.kind = "string" /\ "UnorderedBranch" \in c[n]
         THEN QueryFold(c, UnorderedChild(n, t.s), Tail(toks))
         ELSE IF t.kind = "int" /\ "OrderedBranch" \in c[n]
         THEN QueryFold(c, OrderedChild(n, t.i), Tail(toks))
         ELSE NodeResult(Nil)

\* C1: the generic Query returns exactly the left-to-right fold of its
\* tokens: n itself for no tokens; a Queryer receives the remaining tokens
\* (current one included) and ends the loop; otherwise nil stays nil, a
\* string steps through UnorderedChild, an int through OrderedChild, and a
\* missing capability or any other token kind gives nil.
C1_QueryIsFold ==
    ret.op = "Query" => ret.out = QueryFold(caps, ret.n, ret.queries)

\* C1 witness: a two-token query whose first step is generic and whose
\* second node is a Queryer that receives the one remaining token.
C1_Witness ==
    /\ ret.op = "Query"
    /\ Len(ret.queries) = 2
    /\ ret.out.kind = "override"
    /\ ret.out.node # ret.n
    /\ ret.out.rest = <<ret.queries[2]>>

\* C2: Index is the index-normalization rule: invalid (negative) for every
\* len <= 0; i for 0 <= i < len; i + len for -len <= i < 0; invalid for
\* i >= len or i + len < 0; every valid result lies in [0, len).
C2_IndexRule ==
    ret.op = "Index" =>
        LET i == ret.i
            len == ret.len
            out == ret.out
        IN  /\ (len <= 0 => out < 0)
            /\ (0 <= i /\ i < len => out = i)
            /\ (len > 0 /\ -len <= i /\ i < 0 => out = i + len)
            /\ (len > 0 /\ (i >= len \/ i + len < 0) => out < 0)
            /\ (out >= 0 => out < len)

\* C2 witness: Index(-1, len) selected the last element of a non-empty list.
C2_Witness ==
    /\ ret.op = "Index"
    /\ ret.i = -1
    /\ ret.len > 1
    /\ ret.out = ret.len - 1

RECURSIVE Reachable(_)
\* Nodes reachable from n through ordered children (n excluded).
Reachable(n) ==
    LET kids == {OrderedChildren(n)[k] : k \in 1..Len(OrderedChildren(n))} \ {Nil}
    IN  kids \cup UNION {Reachable(k) : k \in kids}

\* C3: Descendants(n) is a finite enumeration: the call terminates (the
\* recursion never exhausts the stack) and the materialized sequence is
\* never longer than the number of nodes reachable from n through ordered
\* children.
C3_DescendantsFinite ==
    /\ dState # "overflow"
    /\ Len(dOut) <= Cardinality(Reachable(dArg))

=============================================================================
